---- MODULE Spec2Model ----
(***************************************************************************)
(* PaperBlog: the data-access layer src/lib/papers.ts over the content     *)
(* directory content/papers.                                               *)
(*                                                                         *)
(* A string is a sequence of one-character strings, so that endsWith,      *)
(* replace, includes, toLowerCase and the default sort order are computed  *)
(* character by character as the JavaScript runtime computes them.         *)
(***************************************************************************)
EXTENDS Integers, Sequences, FiniteSets, TLC

VARIABLES dirExists, files, last

vars == <<dirExists, files, last>>

(***************************************************************************)
(* Bounds                                                                  *)
(***************************************************************************)
MaxPapers == 2

(***************************************************************************)
(* JavaScript strings                                                      *)
(***************************************************************************)
CodeUnit(c) ==
  CASE c = "." -> 46  [] c = "0" -> 48  [] c = "1" -> 49  [] c = "2" -> 50
    [] c = "9" -> 57  [] c = "A" -> 65  [] c = "B" -> 66  [] c = "N" -> 78
    [] c = "R" -> 82  [] c = "a" -> 97  [] c = "b" -> 98  [] c = "c" -> 99
    [] c = "d" -> 100 [] c = "g" -> 103 [] c = "j" -> 106 [] c = "l" -> 108
    [] c = "m" -> 109 [] c = "n" -> 110 [] c = "o" -> 111 [] c = "q" -> 113
    [] c = "r" -> 114 [] c = "s" -> 115 [] c = "u" -> 117 [] c = "z" -> 122
    [] c = "-" -> 45  [] c = "e" -> 101 [] c = "f" -> 102 [] c = "i" -> 105

LowerChar(c) ==
  CASE c = "A" -> "a" [] c = "B" -> "b" [] c = "N" -> "n" [] c = "R" -> "r"
    [] OTHER -> c

toLowerCase(s) == [i \in 1..Len(s) |-> LowerChar(s[i])]

\* String.prototype.indexOf, 1-based; 0 stands for JavaScript's -1
indexOf(s, pat) ==
  LET hits == {i \in 1..(Len(s) - Len(pat) + 1) :
                 SubSeq(s, i, i + Len(pat) - 1) = pat}
  IN  IF hits = {} THEN 0 ELSE CHOOSE i \in hits : \A j \in hits : i <= j

includes(s, pat) == indexOf(s, pat) # 0

endsWith(s, suffix) ==
  /\ Len(s) >= Len(suffix)
  /\ SubSeq(s, Len(s) - Len(suffix) + 1, Len(s)) = suffix

\* String.prototype.replace with a string pattern: the first occurrence only
replace(s, pat, rep) ==
  LET i == indexOf(s, pat)
  IN  IF i = 0 THEN s
      ELSE SubSeq(s, 1, i - 1) \o rep \o SubSeq(s, i + Len(pat), Len(s))

\* the order of the default Array.prototype.sort: UTF-16 code units
RECURSIVE StrLess(_, _)
StrLess(a, b) ==
  IF a = <<>> THEN b # <<>>
  ELSE IF b = <<>> THEN FALSE
  ELSE IF CodeUnit(Head(a)) # CodeUnit(Head(b))
       THEN CodeUnit(Head(a)) < CodeUnit(Head(b))
       ELSE StrLess(Tail(a), Tail(b))

RECURSIVE insertSorted(_, _)
insertSorted(x, s) ==
  IF s = <<>> THEN <<x>>
  ELSE IF StrLess(x, Head(s)) THEN <<x>> \o s
  ELSE <<Head(s)>> \o insertSorted(x, Tail(s))

RECURSIVE sort(_)
sort(s) == IF s = <<>> THEN <<>> ELSE insertSorted(Head(s), sort(Tail(s)))

reverse(s) == [i \in 1..Len(s) |-> s[Len(s) + 1 - i]]

(***************************************************************************)
(* Values of the program                                                   *)
(***************************************************************************)
JSON_EXT == <<".", "j", "s", "o", "n">>

Undefined == <<"undefined">>
OptionalKeys == {"pdfUrl"}

Null == [kind |-> "null"]
Value(v) == [kind |-> "value", value |-> v]
Throw(e) == [kind |-> "throw", error |-> e]

\* JSON.stringify leaves out the properties whose value is undefined
stringifyObject(o) ==
  [k \in {x \in DOMAIN o : ~(x \in OptionalKeys /\ o[x] = Undefined)} |-> o[k]]

JSONstringify(daily) ==
  [json |-> TRUE,
   value |-> [date |-> daily.date,
              papers |-> [i \in 1..Len(daily.papers) |->
                            stringifyObject(daily.papers[i])],
              generatedAt |-> daily.generatedAt]]

\* text that is not JSON
Garbage == [json |-> FALSE]

\* variant: text that does not parse reads as no document
JSONparse_lenient(raw) == IF raw.json THEN Value(raw.value) ELSE Null

JSONparse(raw) == IF raw.json THEN Value(raw.value) ELSE Throw("SyntaxError")

(***************************************************************************)
(* The inputs                                                              *)
(***************************************************************************)
\* a date listed after every other, whose document is not JSON
DBad == <<"0">>
D0 == <<"0", "0">>
D1 == <<"0", "1">>
D2 == <<"0", "2">>
D3 == <<"1", "0">>
DJsonl == <<"0", "2", ".", "j", "s", "o", "n", "l">>
D2l == <<"0", "2", "l">>
DNone == <<"9", "9">>

README == <<"R", ".", "m", "d">>

GenAt == <<"g">>

P1 == [id |-> <<"1">>, title |-> <<"A", "b">>, abstract |-> <<"c">>,
       summary |-> <<>>, authors |-> << <<"B", "o">> >>,
       tags |-> << <<"N">> >>, pdfUrl |-> <<"u">>]
P1b == [id |-> <<"1">>, title |-> <<"z">>, abstract |-> <<>>,
        summary |-> <<"n", "o">>, authors |-> <<>>, tags |-> <<>>]
P2 == [id |-> <<"2">>, title |-> <<"b">>, abstract |-> <<"a", "B", "c">>,
       summary |-> <<>>, authors |-> <<>>, tags |-> << <<"a">>, <<"N", "o">> >>,
       pdfUrl |-> Undefined]

Papers == {P1, P1b, P2}

\* a batch longer than the default limit of the tools
LongBatch == [i \in 1..11 |-> IF i = 1 THEN P1b ELSE IF i = 11 THEN P1 ELSE P2]

PaperSeqs ==
  UNION {{s \in [1..n -> Papers] : \A i, j \in 1..n : i # j => s[i] # s[j]} :
           n \in 0..MaxPapers}

SaveDates == {D2, D3}

Docs == {[date |-> d, papers |-> ps, generatedAt |-> GenAt] :
           d \in SaveDates, ps \in PaperSeqs}

LookupDates == {D1, D2, D3, DJsonl, D2l, DNone, <<>>}
Ids == {<<"1">>, <<"2">>, <<"9">>}
Queries == {<<>>, <<"a", "b">>, <<"A", "B">>, <<"n">>, <<"N">>, <<"b", "o">>,
            <<"q">>}

\* what the directory may hold before the repository is first used
ExternalFiles ==
  (README :> Garbage)
  @@ ((D1 \o JSON_EXT) :>
        JSONstringify([date |-> D1, papers |-> <<P1b>>, generatedAt |-> GenAt]))
  @@ ((D3 \o JSON_EXT) :> Garbage)
  @@ ((DBad \o JSON_EXT) :> Garbage)
  @@ ((D0 \o JSON_EXT) :>
        JSONstringify([date |-> D0, papers |-> LongBatch, generatedAt |-> GenAt]))
  @@ ((DJsonl \o JSON_EXT) :>
        JSONstringify([date |-> DJsonl, papers |-> <<P2>>, generatedAt |-> GenAt]))

\* the listings the directory starts with
InitialListings ==
  {{},
   {README},
   {README, D1 \o JSON_EXT},
   {README, D1 \o JSON_EXT, DJsonl \o JSON_EXT},
   {D1 \o JSON_EXT, D3 \o JSON_EXT},
   {D0 \o JSON_EXT},
   {D1 \o JSON_EXT, DBad \o JSON_EXT}}

(***************************************************************************)
(* Node's fs on the content directory.  A store st is                      *)
(* [dir |-> whether CONTENT_DIR exists, files |-> entry name -> content];  *)
(* a file path is the entry name under CONTENT_DIR.                        *)
(***************************************************************************)
existsSyncDir(st) == st.dir

existsSync(st, filePath) == st.dir /\ filePath \in DOMAIN st.files

mkdirSync(st) == [st EXCEPT !.dir = TRUE]

RECURSIVE listing(_)
listing(names) ==
  IF names = {} THEN <<>>
  ELSE LET f == CHOOSE x \in names : TRUE
       IN  <<f>> \o listing(names \ {f})

\* the entries of the directory, in the order the system lists them
readdirSync(st) ==
  IF st.dir THEN Value(listing(DOMAIN st.files)) ELSE Throw("ENOENT")

readFileSync(st, filePath) == st.files[filePath]

\* variant: the write is lost
writeFileSync_dropped(st, filePath, data) ==
  IF st.dir THEN Value(st) ELSE Throw("ENOENT")

\* variant: the write empties the directory of every other file
writeFileSync_alone(st, filePath, data) ==
  IF st.dir
  THEN Value([st EXCEPT !.files = [f \in {filePath} |-> data]])
  ELSE Throw("ENOENT")

writeFileSync(st, filePath, data) ==
  IF st.dir
  THEN Value([st EXCEPT !.files =
                [f \in DOMAIN st.files \cup {filePath} |->
                   IF f = filePath THEN data ELSE st.files[f]]])
  ELSE Throw("ENOENT")

(***************************************************************************)
(* src/lib/papers.ts.  Each operation is given the store it is called on   *)
(* and yields its result: Value(v), Null, or Throw(e) for an exception.    *)
(* Its effect on the store is that of its ensureContentDir calls (and of   *)
(* the write, for saveDailyPapers).                                        *)
(***************************************************************************)
\* variant: the directory is checked but never created
ensureContentDir_noMkdir(st) == st

ensureContentDir(st) == IF ~existsSyncDir(st) THEN mkdirSync(st) ELSE st

getAllDates(st) ==
  LET s1 == ensureContentDir(st)
      entries == readdirSync(s1)
  IN  IF entries.kind = "throw" THEN entries
      ELSE LET jsons == SelectSeq(entries.value,
                                  LAMBDA f : endsWith(f, JSON_EXT))
               dates == [i \in 1..Len(jsons) |->
                           replace(jsons[i], JSON_EXT, <<>>)]
           IN  Value(reverse(sort(dates)))

\* variant: the file is read without the existsSync test
getPapersForDate_noExistsCheck(st, date) ==
  LET s1 == ensureContentDir(st)
      filePath == date \o JSON_EXT
  IN  IF filePath \notin DOMAIN s1.files THEN Throw("ENOENT")
      ELSE JSONparse(readFileSync(s1, filePath))

getPapersForDate(st, date) ==
  LET s1 == ensureContentDir(st)
      filePath == date \o JSON_EXT
  IN  IF ~existsSync(s1, filePath) THEN Null
      ELSE JSONparse(readFileSync(s1, filePath))

\* variant: the last listed date is taken instead of the first
getLatestPapers_oldest(st) ==
  LET dates == getAllDates(st)
  IN  IF dates.kind = "throw" THEN dates
      ELSE IF Len(dates.value) = 0 THEN Null
      ELSE getPapersForDate(ensureContentDir(st),
                            dates.value[Len(dates.value)])

getLatestPapers(st) ==
  LET dates == getAllDates(st)
  IN  IF dates.kind = "throw" THEN dates
      ELSE IF Len(dates.value) = 0 THEN Null
      ELSE getPapersForDate(ensureContentDir(st), dates.value[1])

\* variant: each document's papers are put in front of those collected so far
RECURSIVE getAllPapersLoop_prepend(_, _, _)
getAllPapersLoop_prepend(st, dates, all) ==
  IF dates = <<>> THEN Value(all)
  ELSE LET daily == getPapersForDate(st, Head(dates))
       IN  IF daily.kind = "throw" THEN daily
           ELSE getAllPapersLoop_prepend(st, Tail(dates),
                  IF daily.kind = "value" THEN daily.value.papers \o all
                                          ELSE all)

\* the for loop of getAllPapers over the remaining dates
RECURSIVE getAllPapersLoop(_, _, _)
getAllPapersLoop(st, dates, all) ==
  IF dates = <<>> THEN Value(all)
  ELSE LET daily == getPapersForDate(st, Head(dates))
       IN  IF daily.kind = "throw" THEN daily
           ELSE getAllPapersLoop(st, Tail(dates),
                  IF daily.kind = "value" THEN all \o daily.value.papers
                                          ELSE all)

getAllPapers(st) ==
  LET dates == getAllDates(st)
  IN  IF dates.kind = "throw" THEN dates
      ELSE getAllPapersLoop(ensureContentDir(st), dates.value, <<>>)

\* variant: the last paper with the id is taken instead of the first
getPaperById_lastMatch(st, id) ==
  LET all == getAllPapers(st)
  IN  IF all.kind = "throw" THEN all
      ELSE LET hits == {i \in 1..Len(all.value) : all.value[i].id = id}
           IN  IF hits = {} THEN Null
               ELSE Value(all.value[CHOOSE i \in hits : \A j \in hits : i >= j])

getPaperById(st, id) ==
  LET all == getAllPapers(st)
  IN  IF all.kind = "throw" THEN all
      ELSE LET hits == {i \in 1..Len(all.value) : all.value[i].id = id}
           IN  IF hits = {} THEN Null
               ELSE Value(all.value[CHOOSE i \in hits : \A j \in hits : i <= j])

\* variant: an empty query matches nothing
matches_nonEmptyQuery(p, q) ==
  /\ q # <<>>
  /\ \/ includes(toLowerCase(p.title), q)
     \/ includes(toLowerCase(p.abstract), q)
     \/ includes(toLowerCase(p.summary), q)
     \/ \E i \in 1..Len(p.authors) : includes(toLowerCase(p.authors[i]), q)
     \/ \E i \in 1..Len(p.tags) : includes(toLowerCase(p.tags[i]), q)

\* the predicate of the filter in searchPapers; q is the lowercased query
matches(p, q) ==
  \/ includes(toLowerCase(p.title), q)
  \/ includes(toLowerCase(p.abstract), q)
  \/ includes(toLowerCase(p.summary), q)
  \/ \E i \in 1..Len(p.authors) : includes(toLowerCase(p.authors[i]), q)
  \/ \E i \in 1..Len(p.tags) : includes(toLowerCase(p.tags[i]), q)

\* variant: the query is not lowercased
searchPapers_caseSensitive(st, query) ==
  LET all == getAllPapers(st)
  IN  IF all.kind = "throw" THEN all
      ELSE Value(SelectSeq(all.value, LAMBDA p : matches(p, query)))

searchPapers(st, query) ==
  LET all == getAllPapers(st)
      q == toLowerCase(query)
  IN  IF all.kind = "throw" THEN all
      ELSE Value(SelectSeq(all.value, LAMBDA p : matches(p, q)))

\* variant: an existing document is kept (exclusive create)
saveDailyPapers_keepExisting(st, daily) ==
  LET s1 == ensureContentDir(st)
      filePath == daily.date \o JSON_EXT
  IN  IF existsSync(s1, filePath) THEN Value(s1)
      ELSE writeFileSync(s1, filePath, JSONstringify(daily))

\* variant: the papers are appended to those of the existing document
saveDailyPapers_merge(st, daily) ==
  LET s1 == ensureContentDir(st)
      filePath == daily.date \o JSON_EXT
      prior == IF existsSync(s1, filePath) /\ readFileSync(s1, filePath).json
               THEN readFileSync(s1, filePath).value.papers ELSE <<>>
  IN  writeFileSync(s1, filePath,
        JSONstringify([daily EXCEPT !.papers = prior \o daily.papers]))

\* yields Value(store after the write) or Throw(e)
\* variant: every document is written under one fixed name
saveDailyPapers_fixedName(st, daily) ==
  LET s1 == ensureContentDir(st)
      filePath == D1 \o JSON_EXT
  IN  writeFileSync(s1, filePath, JSONstringify(daily))

saveDailyPapers(st, daily) ==
  LET s1 == ensureContentDir(st)
      filePath == daily.date \o JSON_EXT
  IN  writeFileSync(s1, filePath, JSONstringify(daily))

(***************************************************************************)
(* JavaScript values met by the HTTP adapters                              *)
(***************************************************************************)
JSUndefined == [kind |-> "undefined"]
JSNumber(n) == [kind |-> "number", n |-> n]
JSNaN == [kind |-> "NaN"]
JSString(s) == [kind |-> "string", v |-> s]

\* URLSearchParams.get: null when the parameter is not given
ParamAbsent == [kind |-> "null"]

\* ToBoolean
truthy(v) ==
  CASE v.kind = "string" -> v.v # <<>>
    [] v.kind = "number" -> v.n # 0
    [] OTHER -> FALSE

\* the template literal `${v}`
TemplateString(v) ==
  IF v.kind = "string" THEN v.v
  ELSE <<"u", "n", "d", "e", "f", "i", "n", "e", "d">>

IsDigit(c) == c \in {"0", "1", "2", "9"}
DigitValue(c) == CodeUnit(c) - 48

RECURSIVE parseDigits(_, _)
parseDigits(s, acc) ==
  IF s = <<>> \/ ~IsDigit(Head(s)) THEN acc
  ELSE parseDigits(Tail(s), 10 * acc + DigitValue(Head(s)))

\* parseInt(s, 10): an optional sign, then the leading digits; NaN without one
parseInt(s) ==
  LET neg == s # <<>> /\ Head(s) = "-"
      body == IF neg THEN Tail(s) ELSE s
  IN  IF body = <<>> \/ ~IsDigit(Head(body)) THEN JSNaN
      ELSE JSNumber((IF neg THEN -1 ELSE 1) * parseDigits(body, 0))

\* variant: slice(end) instead of slice(0, end)
slice_fromIndex(arr, end) ==
  LET len == Len(arr)
      k == IF end.kind # "number" THEN 0
           ELSE IF end.n < 0 THEN (IF len + end.n < 0 THEN 0 ELSE len + end.n)
           ELSE IF end.n > len THEN len ELSE end.n
  IN  SubSeq(arr, k + 1, len)

\* Array.prototype.slice(0, end) for a number end
slice(arr, end) ==
  LET len == Len(arr)
      k == IF end.kind = "undefined" THEN len
           ELSE IF end.kind # "number" THEN 0
           ELSE IF end.n < 0 THEN (IF len + end.n < 0 THEN 0 ELSE len + end.n)
           ELSE IF end.n > len THEN len ELSE end.n
  IN  SubSeq(arr, 1, k)

Template(text, arg) == <<text, arg>>

Response(status, body) == [status |-> status, body |-> body]

\* variant: the error body is sent with the default status
InternalServerError_noStatus == Response(200, [error |-> "Internal server error"])

InternalServerError == Response(500, [error |-> "Internal server error"])

\* variant: the default branch answers the latest batch alone
RestGetPapers_latestOnly(st, date, query, limitParam) ==
  LET limit == IF truthy(limitParam) THEN parseInt(limitParam.v)
                                     ELSE JSUndefined
  IN  IF truthy(query)
      THEN LET found == searchPapers(st, query.v)
           IN  IF found.kind = "throw" THEN InternalServerError
               ELSE LET results == IF truthy(limit)
                                   THEN slice(found.value, limit)
                                   ELSE found.value
                    IN  Response(200, [papers |-> results,
                                       total |-> Len(results)])
      ELSE IF truthy(date)
      THEN LET daily == getPapersForDate(st, date.v)
           IN  IF daily.kind = "throw" THEN InternalServerError
               ELSE IF daily.kind = "null"
               THEN Response(404, [error |->
                      Template("No papers found for date ", date.v)])
               ELSE Response(200, daily.value)
      ELSE LET latest == getLatestPapers(st)
           IN  IF latest.kind = "throw" THEN InternalServerError
               ELSE Response(200, [latest |-> latest])

(***************************************************************************)
(* GET /api/papers  (app/api/papers/route.ts)                              *)
(***************************************************************************)
\* variant: the date is looked at before the query
RestGetPapers_dateFirst(st, date, query, limitParam) ==
  LET limit == IF truthy(limitParam) THEN parseInt(limitParam.v)
                                     ELSE JSUndefined
  IN  IF truthy(date)
      THEN LET daily == getPapersForDate(st, date.v)
           IN  IF daily.kind = "throw" THEN InternalServerError
               ELSE IF daily.kind = "null"
               THEN Response(404, [error |->
                      Template("No papers found for date ", date.v)])
               ELSE Response(200, daily.value)
      ELSE IF truthy(query)
      THEN LET found == searchPapers(st, query.v)
           IN  IF found.kind = "throw" THEN InternalServerError
               ELSE LET results == IF truthy(limit)
                                   THEN slice(found.value, limit)
                                   ELSE found.value
                    IN  Response(200, [papers |-> results,
                                       total |-> Len(results)])
      ELSE LET latest == getLatestPapers(st)
               dates == getAllDates(st)
           IN  IF latest.kind = "throw" THEN InternalServerError
               ELSE Response(200, [latest |-> latest,
                                   availableDates |-> dates.value])

RestGetPapers(st, date, query, limitParam) ==
  LET limit == IF truthy(limitParam) THEN parseInt(limitParam.v)
                                     ELSE JSUndefined
  IN  IF truthy(query)
      THEN LET found == searchPapers(st, query.v)
           IN  IF found.kind = "throw" THEN InternalServerError
               ELSE LET results == IF truthy(limit)
                                   THEN slice(found.value, limit)
                                   ELSE found.value
                    IN  Response(200, [papers |-> results,
                                       total |-> Len(results)])
      ELSE IF truthy(date)
      THEN LET daily == getPapersForDate(st, date.v)
           IN  IF daily.kind = "throw" THEN InternalServerError
               ELSE IF daily.kind = "null"
               THEN Response(404, [error |->
                      Template("No papers found for date ", date.v)])
               ELSE Response(200, daily.value)
      ELSE LET latest == getLatestPapers(st)
               dates == getAllDates(st)
           IN  IF latest.kind = "throw" \/ dates.kind = "throw"
               THEN InternalServerError
               ELSE Response(200, [latest |-> latest,
                                   availableDates |-> dates.value])

(***************************************************************************)
(* GET /api/papers/[id]  (app/api/papers/[id]/route.ts)                    *)
(***************************************************************************)
\* variant: the not-found answer is sent without its status
RestGetPaperById_noStatus(st, id) ==
  LET paper == getPaperById(st, id)
  IN  IF paper.kind = "throw" THEN InternalServerError
      ELSE IF paper.kind = "null"
      THEN Response(200, [error |-> Template("Paper with id not found", id)])
      ELSE Response(200, paper.value)

RestGetPaperById(st, id) ==
  LET paper == getPaperById(st, id)
  IN  IF paper.kind = "throw" THEN InternalServerError
      ELSE IF paper.kind = "null"
      THEN Response(404, [error |-> Template("Paper with id not found", id)])
      ELSE Response(200, paper.value)

(***************************************************************************)
(* /api/mcp  (app/api/mcp/route.ts)                                        *)
(***************************************************************************)
\* variant: the catalog lacks the last tool of the dispatcher
TOOLS_withoutListDates ==
  <<"get_latest_papers", "get_papers_by_date", "get_paper_by_id",
    "search_papers">>

TOOLS == <<"get_latest_papers", "get_papers_by_date", "get_paper_by_id",
           "search_papers", "list_dates">>

\* args.k: undefined when the property is missing
Arg(args, k) == IF k \in DOMAIN args THEN args[k] ELSE JSUndefined

\* v ?? d
\* variant: the default of ?? is never taken
Coalesce_noDefault(v, d) == v

Coalesce(v, d) == IF v.kind \in {"undefined", "null"} THEN d ELSE v

TextResult(text) == [content |-> <<[type |-> "text", text |-> text]>>]

\* variant: an error text without the isError flag
ErrorResult_noFlag(text) == [content |-> <<[type |-> "text", text |-> text]>>]

ErrorResult(text) ==
  [content |-> <<[type |-> "text", text |-> text]>>, isError |-> TRUE]

\* JSON.stringify(value, null, 2) of a value read back from the store
JsonText(value) == [json |-> TRUE, value |-> value]

\* the catch clause of executeTool
\* variant: the caught error is reported without the isError flag
Caught_noFlag(name, thrown) ==
  TextResult(Template("Error executing tool", <<name, thrown.error>>))

Caught(name, thrown) ==
  ErrorResult(Template("Error executing tool", <<name, thrown.error>>))

\* variant: the empty store is reported as a tool error
executeTool_latestIsError(st, name, args) ==
  CASE name = "get_latest_papers" ->
         LET limit == Coalesce(Arg(args, "limit"), JSNumber(10))
             daily == getLatestPapers(st)
         IN  IF daily.kind = "throw" THEN Caught(name, daily)
             ELSE IF daily.kind = "null"
             THEN ErrorResult("No papers available yet.")
             ELSE LET papers == slice(daily.value.papers, limit)
                  IN  TextResult(JsonText(
                        [date |-> daily.value.date, papers |-> papers,
                         total |-> Len(daily.value.papers)]))
    [] name = "get_papers_by_date" ->
         LET date == Arg(args, "date")
             limit == Coalesce(Arg(args, "limit"), JSUndefined)
             daily == getPapersForDate(st, TemplateString(date))
         IN  IF daily.kind = "throw" THEN Caught(name, daily)
             ELSE IF daily.kind = "null"
             THEN ErrorResult(Template("No papers found for date ",
                                       TemplateString(date)))
             ELSE LET papers == IF truthy(limit)
                                THEN slice(daily.value.papers, limit)
                                ELSE daily.value.papers
                  IN  TextResult(JsonText([date |-> TemplateString(date),
                                           papers |-> papers]))
    [] name = "get_paper_by_id" ->
         LET id == Arg(args, "id")
             paper == getPaperById(st, IF id.kind = "string" THEN id.v
                                                           ELSE Undefined)
         IN  IF paper.kind = "throw" THEN Caught(name, paper)
             ELSE IF paper.kind = "null"
             THEN ErrorResult(Template("Paper not found", TemplateString(id)))
             ELSE TextResult(JsonText(paper.value))
    [] name = "search_papers" ->
         LET query == Arg(args, "query")
             limit == Coalesce(Arg(args, "limit"), JSNumber(10))
             \* query.toLowerCase() of an undefined query is a TypeError,
             \* raised after getAllPapers has run
             found == IF query.kind = "string" THEN searchPapers(st, query.v)
                      ELSE LET all == getAllPapers(st)
                           IN  IF all.kind = "throw" THEN all
                               ELSE Throw("TypeError")
         IN  IF found.kind = "throw" THEN Caught(name, found)
             ELSE LET results == slice(found.value, limit)
                  IN  TextResult(JsonText(
                        [query |-> query.v, results |-> results,
                         total |-> Len(results)]))
    [] name = "list_dates" ->
         LET dates == getAllDates(st)
         IN  IF dates.kind = "throw" THEN Caught(name, dates)
             ELSE TextResult(JsonText([dates |-> dates.value]))
    [] OTHER -> ErrorResult(Template("Unknown tool: ", name))

executeTool(st, name, args) ==
  CASE name = "get_latest_papers" ->
         LET limit == Coalesce(Arg(args, "limit"), JSNumber(10))
             daily == getLatestPapers(st)
         IN  IF daily.kind = "throw" THEN Caught(name, daily)
             ELSE IF daily.kind = "null"
             THEN TextResult("No papers available yet.")
             ELSE LET papers == slice(daily.value.papers, limit)
                  IN  TextResult(JsonText(
                        [date |-> daily.value.date, papers |-> papers,
                         total |-> Len(daily.value.papers)]))
    [] name = "get_papers_by_date" ->
         LET date == Arg(args, "date")
             limit == Coalesce(Arg(args, "limit"), JSUndefined)
             daily == getPapersForDate(st, TemplateString(date))
         IN  IF daily.kind = "throw" THEN Caught(name, daily)
             ELSE IF daily.kind = "null"
             THEN ErrorResult(Template("No papers found for date ",
                                       TemplateString(date)))
             ELSE LET papers == IF truthy(limit)
                                THEN slice(daily.value.papers, limit)
                                ELSE daily.value.papers
                  IN  TextResult(JsonText([date |-> TemplateString(date),
                                           papers |-> papers]))
    [] name = "get_paper_by_id" ->
         LET id == Arg(args, "id")
             paper == getPaperById(st, IF id.kind = "string" THEN id.v
                                                           ELSE Undefined)
         IN  IF paper.kind = "throw" THEN Caught(name, paper)
             ELSE IF paper.kind = "null"
             THEN ErrorResult(Template("Paper not found", TemplateString(id)))
             ELSE TextResult(JsonText(paper.value))
    [] name = "search_papers" ->
         LET query == Arg(args, "query")
             limit == Coalesce(Arg(args, "limit"), JSNumber(10))
             \* query.toLowerCase() of an undefined query is a TypeError,
             \* raised after getAllPapers has run
             found == IF query.kind = "string" THEN searchPapers(st, query.v)
                      ELSE LET all == getAllPapers(st)
                           IN  IF all.kind = "throw" THEN all
                               ELSE Throw("TypeError")
         IN  IF found.kind = "throw" THEN Caught(name, found)
             ELSE LET results == slice(found.value, limit)
                  IN  TextResult(JsonText(
                        [query |-> query.v, results |-> results,
                         total |-> Len(results)]))
    [] name = "list_dates" ->
         LET dates == getAllDates(st)
         IN  IF dates.kind = "throw" THEN Caught(name, dates)
             ELSE TextResult(JsonText([dates |-> dates.value]))
    [] OTHER -> ErrorResult(Template("Unknown tool: ", name))

McpGet ==
  Response(200, [name |-> "paperblog-mcp-server", version |-> "1.0.0",
                 tools |-> TOOLS])

\* body: [valid |-> whether the request body parses as a JSON object,
\*        fields |-> the properties of that object]
\* variant: the name is not checked before the tool is executed
McpPost_noNameCheck(st, body) ==
  IF ~body.valid THEN InternalServerError
  ELSE Response(200,
         executeTool(st,
                     IF "name" \in DOMAIN body.fields THEN body.fields.name
                                                      ELSE "undefined",
                     IF "arguments" \in DOMAIN body.fields
                     THEN body.fields.arguments
                     ELSE [k \in {} |-> JSUndefined]))

McpPost(st, body) ==
  IF ~body.valid THEN InternalServerError
  ELSE IF ~("name" \in DOMAIN body.fields /\ body.fields.name # "")
  THEN Response(400, [error |-> "Missing required field: name"])
  ELSE Response(200,
         executeTool(st, body.fields.name,
                     IF "arguments" \in DOMAIN body.fields
                     THEN body.fields.arguments
                     ELSE [k \in {} |-> JSUndefined]))

\* whether a handler reaches the data-access layer
McpTouchesStore(body) ==
  /\ body.valid
  /\ "name" \in DOMAIN body.fields
  /\ body.fields.name \in {TOOLS[i] : i \in 1..Len(TOOLS)}

(***************************************************************************)
(* The requests                                                            *)
(***************************************************************************)
DateParams == {ParamAbsent, JSString(<<>>), JSString(D1), JSString(D3),
               JSString(DNone)}
QueryParams == {ParamAbsent, JSString(<<>>), JSString(<<"n">>)}
LimitParams == {ParamAbsent, JSString(<<"0">>), JSString(<<"1">>),
                JSString(<<"-", "1">>)}

LimitArgs == {JSUndefined, JSNumber(0), JSNumber(1), JSNumber(-1)}

NoArgs == [k \in {} |-> JSUndefined]

WithLimit(args, limit) ==
  IF limit = JSUndefined THEN args
  ELSE [k \in DOMAIN args \cup {"limit"} |->
          IF k = "limit" THEN limit ELSE args[k]]

ToolCalls ==
  {[name |-> "get_latest_papers", arguments |-> WithLimit(NoArgs, l)] :
     l \in LimitArgs}
  \cup {[name |-> "get_papers_by_date",
         arguments |-> WithLimit([date |-> JSString(d)], l)] :
          d \in {D0, D1, D3, DNone, <<>>}, l \in LimitArgs}
  \cup {[name |-> "get_papers_by_date", arguments |-> NoArgs]}
  \cup {[name |-> "get_paper_by_id", arguments |-> [id |-> JSString(i)]] :
          i \in {<<"1">>, <<"9">>}}
  \cup {[name |-> "get_paper_by_id", arguments |-> NoArgs]}
  \cup {[name |-> "search_papers",
         arguments |-> WithLimit([query |-> JSString(q)], l)] :
          q \in {<<>>, <<"n">>}, l \in LimitArgs}
  \cup {[name |-> "search_papers", arguments |-> NoArgs]}
  \cup {[name |-> "list_dates", arguments |-> NoArgs]}
  \cup {[name |-> "no_such_tool", arguments |-> NoArgs]}

McpBodies ==
  {[valid |-> TRUE, fields |-> c] : c \in ToolCalls}
  \cup {[valid |-> TRUE, fields |-> [name |-> "list_dates"]],
        [valid |-> TRUE, fields |-> [arguments |-> NoArgs]],
        [valid |-> TRUE, fields |-> [name |-> "", arguments |-> NoArgs]],
        [valid |-> FALSE, fields |-> NoArgs]}

(***************************************************************************)
(* The state machine.  Calls are synchronous: a caller invokes one         *)
(* operation, which runs to completion on the store, and takes its result  *)
(* before the next call is made.  last holds the call that has just run,   *)
(* its result and the store it ran on; op = "none" between calls.          *)
(***************************************************************************)
store == [dir |-> dirExists, files |-> files]

Idle == last.op = "none"

Call(op, arg, result) ==
  [op |-> op, arg |-> arg, result |-> result,
   preDir |-> dirExists, preFiles |-> files]

NoFiles == [f \in {} |-> Garbage]

Init ==
  /\ \/ /\ dirExists = FALSE
        /\ files = NoFiles
     \/ /\ dirExists = TRUE
        /\ \E S \in InitialListings :
             files = [f \in S |-> ExternalFiles[f]]
  /\ last = [op |-> "none", arg |-> <<>>, result |-> Null,
             preDir |-> dirExists, preFiles |-> files]

\* the effect of a read operation on the store
\* variant: a read leaves a file of its own in the directory
ReadEffect_touch ==
  /\ dirExists' = TRUE
  /\ files' = writeFileSync(ensureContentDir(store), README, Garbage).value.files

ReadEffect ==
  /\ dirExists' = ensureContentDir(store).dir
  /\ files' = ensureContentDir(store).files

GetAllDates ==
  /\ Idle
  /\ last' = Call("getAllDates", <<>>, getAllDates(store))
  /\ ReadEffect

GetPapersForDate ==
  /\ Idle
  /\ \E date \in LookupDates :
       last' = Call("getPapersForDate", date, getPapersForDate(store, date))
  /\ ReadEffect

GetLatestPapers ==
  /\ Idle
  /\ last' = Call("getLatestPapers", <<>>, getLatestPapers(store))
  /\ ReadEffect

GetAllPapers ==
  /\ Idle
  /\ last' = Call("getAllPapers", <<>>, getAllPapers(store))
  /\ ReadEffect

GetPaperById ==
  /\ Idle
  /\ \E id \in Ids :
       last' = Call("getPaperById", id, getPaperById(store, id))
  /\ ReadEffect

SearchPapers ==
  /\ Idle
  /\ \E query \in Queries :
       last' = Call("searchPapers", query, searchPapers(store, query))
  /\ ReadEffect

SaveDailyPapers ==
  /\ Idle
  /\ \E daily \in Docs :
       LET r == saveDailyPapers(store, daily)
           after == IF r.kind = "value" THEN r.value
                                        ELSE ensureContentDir(store)
       IN  /\ dirExists' = after.dir
           /\ files' = after.files
           /\ last' = Call("saveDailyPapers", daily,
                           IF r.kind = "value" THEN Null ELSE r)

\* a route handler whose code reaches the data-access layer runs at least one
\* ensureContentDir
HttpGetPapers ==
  /\ Idle
  /\ \E date \in DateParams, query \in QueryParams, limitParam \in LimitParams :
       last' = Call("GET /api/papers",
                    [date |-> date, q |-> query, limit |-> limitParam],
                    RestGetPapers(store, date, query, limitParam))
  /\ ReadEffect

HttpGetPaperById ==
  /\ Idle
  /\ \E id \in Ids :
       last' = Call("GET /api/papers/[id]", id, RestGetPaperById(store, id))
  /\ ReadEffect

HttpGetMcp ==
  /\ Idle
  /\ last' = Call("GET /api/mcp", <<>>, McpGet)
  /\ UNCHANGED <<dirExists, files>>

HttpPostMcp ==
  /\ Idle
  /\ \E body \in McpBodies :
       /\ last' = Call("POST /api/mcp", body, McpPost(store, body))
       /\ IF McpTouchesStore(body) THEN ReadEffect
                                   ELSE UNCHANGED <<dirExists, files>>

\* the caller takes the result
Return ==
  /\ ~Idle
  /\ last' = [op |-> "none", arg |-> <<>>, result |-> Null,
              preDir |-> dirExists, preFiles |-> files]
  /\ UNCHANGED <<dirExists, files>>

Next ==
  \/ GetAllDates
  \/ GetPapersForDate
  \/ GetLatestPapers
  \/ GetAllPapers
  \/ GetPaperById
  \/ SearchPapers
  \/ SaveDailyPapers
  \/ HttpGetPapers
  \/ HttpGetPaperById
  \/ HttpGetMcp
  \/ HttpPostMcp
  \/ Return

Spec == Init /\ [][Next]_vars

(***************************************************************************)
(* Properties                                                              *)
(***************************************************************************)
\* the store the last call ran on
preStore == [dir |-> last.preDir, files |-> last.preFiles]

\* the names of preStore that follow the document naming convention
JsonNames(st) == {f \in DOMAIN st.files : endsWith(f, JSON_EXT)}

StripSuffix(f) == SubSeq(f, 1, Len(f) - Len(JSON_EXT))

\* s is a substring of t
IsSubstring(s, t) ==
  \E a \in 0..Len(t) : \E b \in a..Len(t) : SubSeq(t, a + 1, b) = s

\* equality of two papers as values of the data model: an optional property
\* that is undefined is an absent property
DefinedKeys(o) == {k \in DOMAIN o : ~(k \in OptionalKeys /\ o[k] = Undefined)}

PaperEqual(a, b) ==
  /\ DefinedKeys(a) = DefinedKeys(b)
  /\ \A k \in DefinedKeys(a) : a[k] = b[k]

DailyEqual(a, b) ==
  /\ a.date = b.date
  /\ a.generatedAt = b.generatedAt
  /\ Len(a.papers) = Len(b.papers)
  /\ \A i \in 1..Len(a.papers) : PaperEqual(a.papers[i], b.papers[i])

\* the papers of the document getForDate retrieves for date d (none if absent)
PapersOf(st, d) ==
  LET r == getPapersForDate(st, d)
  IN  IF r.kind = "value" THEN r.value.papers ELSE <<>>

\* the number of papers of the documents of the first k dates
RECURSIVE Offset(_, _, _)
Offset(st, dates, k) ==
  IF k = 0 THEN 0
  ELSE Offset(st, dates, k - 1) + Len(PapersOf(st, dates[k]))

\* r is obtained from a by deleting elements
RECURSIVE IsSubsequence(_, _)
IsSubsequence(r, a) ==
  IF r = <<>> THEN TRUE
  ELSE IF a = <<>> THEN FALSE
  ELSE IF Head(r) = Head(a) THEN IsSubsequence(Tail(r), Tail(a))
  ELSE IsSubsequence(r, Tail(a))

\* C1: for every directory listing, listDates returns a strictly descending
\* sequence without duplicates whose elements are exactly the names ending
\* in ".json" with that suffix stripped
C1_ListDatesStripsSuffix ==
  (last.op = "getAllDates" /\ last.result.kind = "value") =>
    LET r == last.result.value
    IN  /\ \A i \in 1..(Len(r) - 1) : StrLess(r[i + 1], r[i])
        /\ \A i \in 1..Len(r) :
             \E f \in JsonNames(preStore) : r[i] = StripSuffix(f)
        /\ \A f \in JsonNames(preStore) :
             \E i \in 1..Len(r) : r[i] = StripSuffix(f)

\* C2: after save(d), getForDate(d.date) returns a value equal to d, whatever
\* the store was before, also when the content directory did not exist
C2_SaveThenGet ==
  (last.op = "saveDailyPapers") =>
    LET r == getPapersForDate(store, last.arg.date)
    IN  /\ last.result = Null
        /\ dirExists
        /\ r.kind = "value"
        /\ DailyEqual(r.value, last.arg)

C2_Witness ==
  /\ last.op = "saveDailyPapers"
  /\ ~last.preDir
  /\ \E i \in 1..Len(last.arg.papers) :
       "pdfUrl" \in DOMAIN last.arg.papers[i]
       /\ last.arg.papers[i].pdfUrl = Undefined
  /\ getPapersForDate(store, last.arg.date).kind = "value"

C2_WitnessOverwrite ==
  /\ last.op = "saveDailyPapers"
  /\ (last.arg.date \o JSON_EXT) \in DOMAIN last.preFiles
  /\ getPapersForDate(store, last.arg.date).kind = "value"

\* C3: save(d) replaces the whole document under d.date (the stored papers
\* are those of d, none of the prior document is kept) and leaves every other
\* entry of the store as it was
C3_SaveReplacesOnlyItsDate ==
  (last.op = "saveDailyPapers") =>
    LET key == last.arg.date \o JSON_EXT
    IN  /\ DOMAIN files = DOMAIN last.preFiles \cup {key}
        /\ \A f \in DOMAIN last.preFiles : f # key => files[f] = last.preFiles[f]
        /\ files[key].json
        /\ Len(files[key].value.papers) = Len(last.arg.papers)
        /\ \A i \in 1..Len(last.arg.papers) :
             files[key].value.papers[i].id = last.arg.papers[i].id
             /\ files[key].value.papers[i].title = last.arg.papers[i].title

C3_Witness ==
  /\ last.op = "saveDailyPapers"
  /\ LET key == last.arg.date \o JSON_EXT
     IN  /\ key \in DOMAIN last.preFiles
         /\ last.preFiles[key].json
         /\ Len(last.preFiles[key].value.papers) > 0
         /\ files[key] # last.preFiles[key]
         /\ \E f \in JsonNames(preStore) : f # key /\ last.preFiles[f].json

\* C4: getLatest returns getForDate of the first element of listDates, which
\* is the greatest listed date, and null when listDates is empty
C4_LatestIsFirstListed ==
  (last.op = "getLatestPapers") =>
    LET dates == getAllDates(preStore).value
    IN  IF dates = <<>> THEN last.result = Null
        ELSE /\ last.result = getPapersForDate(preStore, dates[1])
             /\ \E i \in 1..Len(dates) :
                  /\ \A j \in 1..Len(dates) : ~StrLess(dates[i], dates[j])
                  /\ last.result = getPapersForDate(preStore, dates[i])

C4_Witness ==
  /\ last.op = "getLatestPapers"
  /\ Len(getAllDates(preStore).value) >= 3
  /\ last.result.kind = "value"
  /\ last.result.value.date = D3

C4_WitnessEmpty ==
  /\ last.op = "getLatestPapers"
  /\ getAllDates(preStore).value = <<>>
  /\ last.result = Null

\* C5: getAll is the concatenation, in listDates order, of the papers of the
\* documents of the listed dates, each in its stored order; its length is the
\* sum of their lengths; it is empty when there is no document
C5_GetAllConcatenates ==
  (last.op = "getAllPapers" /\ last.result.kind = "value") =>
    LET dates == getAllDates(preStore).value
        all == last.result.value
    IN  /\ Len(all) = Offset(preStore, dates, Len(dates))
        /\ \A k \in 1..Len(dates) :
             SubSeq(all, Offset(preStore, dates, k - 1) + 1,
                    Offset(preStore, dates, k)) = PapersOf(preStore, dates[k])
        /\ (JsonNames(preStore) = {}) => all = <<>>

C5_Witness ==
  /\ last.op = "getAllPapers"
  /\ last.result.kind = "value"
  /\ LET dates == getAllDates(preStore).value
     IN  /\ Len(dates) >= 2
         /\ Len(PapersOf(preStore, dates[1])) >= 2
         /\ Len(PapersOf(preStore, dates[2])) >= 1
         /\ PapersOf(preStore, dates[1])[1] # PapersOf(preStore, dates[2])[1]

\* C6: getById returns the first paper of getAll with the given id, null
\* exactly when getAll has none; of two listed dates whose documents hold the
\* id, the paper of the later one is returned
C6_GetByIdFirstMatch ==
  (last.op = "getPaperById" /\ getAllPapers(preStore).kind = "value") =>
    LET all == getAllPapers(preStore).value
        id == last.arg
        dates == getAllDates(preStore).value
        has(d) == \E i \in 1..Len(PapersOf(preStore, d)) :
                    PapersOf(preStore, d)[i].id = id
    IN  /\ (last.result = Null) <=> (\A i \in 1..Len(all) : all[i].id # id)
        /\ (last.result # Null) =>
             /\ last.result.kind = "value"
             /\ \E i \in 1..Len(all) :
                  /\ all[i].id = id
                  /\ last.result.value = all[i]
                  /\ \A j \in 1..(i - 1) : all[j].id # id
        /\ \A k \in 1..Len(dates) :
             (has(dates[k])
              /\ \A m \in 1..Len(dates) :
                   has(dates[m]) => ~StrLess(dates[k], dates[m]))
             => \E i \in 1..Len(PapersOf(preStore, dates[k])) :
                  /\ PapersOf(preStore, dates[k])[i] = last.result.value
                  /\ \A j \in 1..(i - 1) :
                       PapersOf(preStore, dates[k])[j].id # id

C6_Witness ==
  /\ last.op = "getPaperById"
  /\ last.result.kind = "value"
  /\ last.result.value = P1
  /\ \E i \in 1..Len(PapersOf(preStore, D1)) : PapersOf(preStore, D1)[i] = P1b
  /\ \E i \in 1..Len(PapersOf(preStore, D3)) : PapersOf(preStore, D3)[i] = P1

C6_WitnessAbsent ==
  /\ last.op = "getPaperById"
  /\ last.result = Null
  /\ Len(getAllPapers(preStore).value) > 0

\* C7: a paper of getAll is in search(q) iff the lowercased q is a substring
\* of its lowercased title, abstract or summary or of one of its lowercased
\* authors or tags; queries that differ only in case give the same result
C7_SearchMatchesFields ==
  (last.op = "searchPapers" /\ last.result.kind = "value") =>
    LET all == getAllPapers(preStore).value
        res == last.result.value
        q == toLowerCase(last.arg)
        hit(p) ==
          \/ IsSubstring(q, toLowerCase(p.title))
          \/ IsSubstring(q, toLowerCase(p.abstract))
          \/ IsSubstring(q, toLowerCase(p.summary))
          \/ \E i \in 1..Len(p.authors) : IsSubstring(q, toLowerCase(p.authors[i]))
          \/ \E i \in 1..Len(p.tags) : IsSubstring(q, toLowerCase(p.tags[i]))
    IN  /\ \A i \in 1..Len(all) :
             (\E j \in 1..Len(res) : res[j] = all[i]) <=> hit(all[i])
        /\ \A q2 \in Queries :
             toLowerCase(q2) = q => searchPapers(preStore, q2) = last.result
        /\ (\A i \in 1..Len(all) : ~hit(all[i])) => res = <<>>

C7_Witness ==
  /\ last.op = "searchPapers"
  /\ last.result.kind = "value"
  /\ last.arg = <<"A", "B">>
  /\ Len(last.result.value) >= 2
  /\ Len(last.result.value) < Len(getAllPapers(preStore).value)

C7_WitnessNoMatch ==
  /\ last.op = "searchPapers"
  /\ last.arg = <<"q">>
  /\ last.result = Value(<<>>)
  /\ Len(getAllPapers(preStore).value) > 0

\* C8: search(q) is an order-preserving subsequence of getAll, and search("")
\* is getAll, also for papers without authors and tags
C8_SearchIsSubsequence ==
  (last.op = "searchPapers" /\ last.result.kind = "value") =>
    LET all == getAllPapers(preStore).value
    IN  /\ IsSubsequence(last.result.value, all)
        /\ (last.arg = <<>>) => last.result.value = all

C8_Witness ==
  /\ last.op = "searchPapers"
  /\ last.arg = <<>>
  /\ last.result.kind = "value"
  /\ Len(last.result.value) >= 3
  /\ \E i \in 1..Len(last.result.value) :
       last.result.value[i].authors = <<>> /\ last.result.value[i].tags = <<>>

C8_WitnessProper ==
  /\ last.op = "searchPapers"
  /\ last.result.kind = "value"
  /\ Len(last.result.value) >= 2
  /\ Len(last.result.value) < Len(getAllPapers(preStore).value)

\* the store has no document for date d
NoDocument(st, d) == (d \o JSON_EXT) \notin DOMAIN st.files

IsByDateCall(body) ==
  /\ body.valid
  /\ "name" \in DOMAIN body.fields
  /\ body.fields.name = "get_papers_by_date"
  /\ "arguments" \in DOMAIN body.fields
  /\ "date" \in DOMAIN body.fields.arguments

\* C9 as stated: for any date without a document, getForDate returns null,
\* GET /papers?date=<date> answers 404 with an error body and the
\* get_papers_by_date tool answers isError true
C9_AbsentDateNotFound ==
  /\ (last.op = "getPapersForDate" /\ NoDocument(preStore, last.arg))
       => last.result = Null
  /\ (last.op = "GET /api/papers" /\ last.arg.q = ParamAbsent
      /\ last.arg.date # ParamAbsent /\ NoDocument(preStore, last.arg.date.v))
       => (last.result.status = 404 /\ "error" \in DOMAIN last.result.body)
  /\ (last.op = "POST /api/mcp" /\ IsByDateCall(last.arg)
      /\ NoDocument(preStore, last.arg.fields.arguments.date.v))
       => /\ last.result.status = 200
          /\ "isError" \in DOMAIN last.result.body
          /\ last.result.body.isError

\* C9 (amended): as above, the route answering 404 for every non-empty date
\* without a document
C9_AbsentNonEmptyDateNotFound ==
  /\ (last.op = "getPapersForDate" /\ NoDocument(preStore, last.arg))
       => last.result = Null
  /\ (last.op = "GET /api/papers" /\ last.arg.q = ParamAbsent
      /\ last.arg.date # ParamAbsent /\ last.arg.date.v # <<>>
      /\ NoDocument(preStore, last.arg.date.v))
       => (last.result.status = 404 /\ "error" \in DOMAIN last.result.body)
  /\ (last.op = "POST /api/mcp" /\ IsByDateCall(last.arg)
      /\ NoDocument(preStore, last.arg.fields.arguments.date.v))
       => /\ last.result.status = 200
          /\ "isError" \in DOMAIN last.result.body
          /\ last.result.body.isError

C9_Witness ==
  /\ last.op = "GET /api/papers"
  /\ last.arg.q = ParamAbsent
  /\ last.arg.date = JSString(DNone)
  /\ JsonNames(preStore) # {}
  /\ last.result.status = 404

C9_WitnessTool ==
  /\ last.op = "POST /api/mcp"
  /\ IsByDateCall(last.arg)
  /\ NoDocument(preStore, last.arg.fields.arguments.date.v)
  /\ JsonNames(preStore) # {}
  /\ "isError" \in DOMAIN last.result.body

\* C10: when the content directory does not exist, listDates creates it
\* empty and returns the empty sequence, without failing
C10_ListDatesCreatesStore ==
  (last.op = "getAllDates" /\ ~last.preDir) =>
    /\ last.result = Value(<<>>)
    /\ dirExists
    /\ files = NoFiles

C10_Witness ==
  /\ last.op = "getAllDates"
  /\ ~last.preDir
  /\ dirExists

\* r is an initial segment of a
IsPrefix(r, a) == Len(r) <= Len(a) /\ r = SubSeq(a, 1, Len(r))

\* C11 as stated: GET /papers?q=<text>&limit=N answers 200 with {papers, total},
\* papers a prefix of search(text) and total the length of papers, for every
\* text (search not failing)
C11_SearchRoute ==
  (last.op = "GET /api/papers" /\ last.arg.q # ParamAbsent
   /\ searchPapers(preStore, last.arg.q.v).kind = "value") =>
    LET found == searchPapers(preStore, last.arg.q.v).value
        r == last.result
    IN  /\ r.status = 200
        /\ DOMAIN r.body = {"papers", "total"}
        /\ IsPrefix(r.body.papers, found)
        /\ r.body.total = Len(r.body.papers)
        /\ Len(r.body.papers) <= Len(found)

\* C11 (amended): the same for every non-empty text
C11_SearchRouteNonEmptyQuery ==
  (last.op = "GET /api/papers" /\ last.arg.q # ParamAbsent
   /\ last.arg.q.v # <<>>
   /\ searchPapers(preStore, last.arg.q.v).kind = "value") =>
    LET found == searchPapers(preStore, last.arg.q.v).value
        r == last.result
    IN  /\ r.status = 200
        /\ DOMAIN r.body = {"papers", "total"}
        /\ IsPrefix(r.body.papers, found)
        /\ r.body.total = Len(r.body.papers)
        /\ Len(r.body.papers) <= Len(found)

C11_Witness ==
  /\ last.op = "GET /api/papers"
  /\ last.arg.q = JSString(<<"n">>)
  /\ last.arg.limit = JSString(<<"1">>)
  /\ searchPapers(preStore, <<"n">>).kind = "value"
  /\ Len(searchPapers(preStore, <<"n">>).value) >= 2
  /\ last.result.status = 200
  /\ last.result.body.total = 1

\* C12: GET /papers without parameters answers 200 with {latest,
\* availableDates}: latest is getLatest() (null when the store has no
\* document), availableDates is listDates()
C12_DefaultRoute ==
  (last.op = "GET /api/papers" /\ last.arg.q = ParamAbsent
   /\ last.arg.date = ParamAbsent /\ last.arg.limit = ParamAbsent
   /\ getLatestPapers(preStore).kind # "throw") =>
    LET r == last.result
        dates == getAllDates(preStore).value
    IN  /\ r.status = 200
        /\ DOMAIN r.body = {"latest", "availableDates"}
        /\ r.body.availableDates = dates
        /\ r.body.latest = IF dates = <<>> THEN Null
                           ELSE getPapersForDate(preStore, dates[1])
        /\ (JsonNames(preStore) = {}) => r.body.latest = Null

C12_Witness ==
  /\ last.op = "GET /api/papers"
  /\ last.arg.q = ParamAbsent
  /\ last.arg.date = ParamAbsent
  /\ last.arg.limit = ParamAbsent
  /\ last.result.status = 200
  /\ last.result.body.latest.kind = "value"
  /\ Len(last.result.body.availableDates) >= 2

C12_WitnessEmpty ==
  /\ last.op = "GET /api/papers"
  /\ last.arg.q = ParamAbsent
  /\ last.arg.date = ParamAbsent
  /\ last.arg.limit = ParamAbsent
  /\ JsonNames(preStore) = {}
  /\ last.result.status = 200
  /\ last.result.body.latest = Null

\* C13: GET /papers/:id answers 200 with the paper of getById(id) when it is
\* present and 404 with an error body when it is absent
C13_PaperRoute ==
  (last.op = "GET /api/papers/[id]"
   /\ getAllPapers(preStore).kind = "value") =>
    LET all == getAllPapers(preStore).value
        hits == {i \in 1..Len(all) : all[i].id = last.arg}
        r == last.result
    IN  IF hits = {}
        THEN r.status = 404 /\ DOMAIN r.body = {"error"}
        ELSE /\ r.status = 200
             /\ \E i \in hits : r.body = all[i] /\ \A j \in hits : i <= j

C13_Witness ==
  /\ last.op = "GET /api/papers/[id]"
  /\ last.result.status = 404
  /\ getAllPapers(preStore).kind = "value"
  /\ Len(getAllPapers(preStore).value) > 0

C13_WitnessFound ==
  /\ last.op = "GET /api/papers/[id]"
  /\ last.result.status = 200
  /\ last.result.body = P1

\* the tool call of a POST /api/mcp body that parsed as a JSON object
IsToolCall(name) ==
  /\ last.op = "POST /api/mcp"
  /\ last.arg.valid
  /\ "name" \in DOMAIN last.arg.fields
  /\ last.arg.fields.name = name

ToolArgs ==
  IF "arguments" \in DOMAIN last.arg.fields THEN last.arg.fields.arguments
                                            ELSE NoArgs

IsErrorResult(result) == "isError" \in DOMAIN result /\ result.isError

ToolText == last.result.body.content[1].text

\* C14: POST /mcp whose body has no name field answers 400 with the error
\* message naming the field, and executes no tool: the answer carries no tool
\* result and the store is left as it was
C14_MissingName ==
  (last.op = "POST /api/mcp" /\ last.arg.valid
   /\ "name" \notin DOMAIN last.arg.fields) =>
    /\ last.result.status = 400
    /\ DOMAIN last.result.body = {"error"}
    /\ last.result.body.error = "Missing required field: name"
    /\ dirExists = last.preDir
    /\ files = last.preFiles

C14_Witness ==
  /\ last.op = "POST /api/mcp"
  /\ last.arg.valid
  /\ "name" \notin DOMAIN last.arg.fields
  /\ last.result.status = 400
  /\ ~last.preDir
  /\ ~dirExists

ToolSucceeds ==
  \/ IsToolCall("get_latest_papers")
       /\ getLatestPapers(preStore).kind = "value"
  \/ IsToolCall("get_papers_by_date")
       /\ getPapersForDate(preStore,
                           TemplateString(Arg(ToolArgs, "date"))).kind = "value"
  \/ IsToolCall("get_paper_by_id") /\ Arg(ToolArgs, "id").kind = "string"
       /\ getPaperById(preStore, Arg(ToolArgs, "id").v).kind = "value"
  \/ IsToolCall("search_papers") /\ Arg(ToolArgs, "query").kind = "string"
       /\ searchPapers(preStore, Arg(ToolArgs, "query").v).kind = "value"
  \/ IsToolCall("list_dates") /\ getAllDates(preStore).kind = "value"

\* C16: get_papers_by_date for a date without document and get_paper_by_id
\* for an unknown id answer isError true; get_latest_papers on a store
\* without document answers the "no papers" text without isError; a
\* successful result never carries isError
C16_ErrorFlags ==
  /\ (IsToolCall("get_papers_by_date")
      /\ getPapersForDate(preStore, TemplateString(Arg(ToolArgs, "date")))
           = Null)
       => IsErrorResult(last.result.body)
  /\ (IsToolCall("get_paper_by_id") /\ Arg(ToolArgs, "id").kind = "string"
      /\ getAllPapers(preStore).kind = "value"
      /\ \A i \in 1..Len(getAllPapers(preStore).value) :
           getAllPapers(preStore).value[i].id # Arg(ToolArgs, "id").v)
       => IsErrorResult(last.result.body)
  /\ (IsToolCall("get_latest_papers") /\ JsonNames(preStore) = {})
       => /\ "isError" \notin DOMAIN last.result.body
          /\ ToolText = "No papers available yet."
  /\ ToolSucceeds => "isError" \notin DOMAIN last.result.body

C16_Witness ==
  /\ IsToolCall("get_latest_papers")
  /\ JsonNames(preStore) = {}
  /\ last.result.status = 200
  /\ "isError" \notin DOMAIN last.result.body

C16_WitnessSuccess ==
  /\ IsToolCall("get_paper_by_id")
  /\ ToolSucceeds
  /\ ToolText = JsonText(P1)

C16_WitnessByDate ==
  /\ IsToolCall("get_papers_by_date")
  /\ Arg(ToolArgs, "date") = JSString(DNone)
  /\ last.result.body.isError

C16_WitnessById ==
  /\ IsToolCall("get_paper_by_id")
  /\ Arg(ToolArgs, "id") = JSString(<<"9">>)
  /\ Len(getAllPapers(preStore).value) > 0
  /\ last.result.body.isError

Min(a, b) == IF a < b THEN a ELSE b

\* the first Min(k, n) elements of a sequence of n
FirstN(arr, k) == SubSeq(arr, 1, Min(k, Len(arr)))

\* the limit the claim speaks of: 0 when omitted, else the positive number
LimitOmitted == "limit" \notin DOMAIN ToolArgs

LimitPositive ==
  /\ "limit" \in DOMAIN ToolArgs
  /\ ToolArgs.limit.kind = "number"
  /\ ToolArgs.limit.n > 0

\* C17: with limit omitted get_latest_papers returns the first min(10, n)
\* papers of the latest batch, search_papers the first min(10, n) matches and
\* get_papers_by_date all papers of the date; with a positive limit L each
\* returns the first min(L, n)
C17_ToolLimits ==
  /\ (IsToolCall("get_latest_papers")
      /\ getLatestPapers(preStore).kind = "value") =>
       LET all == getLatestPapers(preStore).value.papers
       IN  /\ LimitOmitted => ToolText.value.papers = FirstN(all, 10)
           /\ LimitPositive =>
                ToolText.value.papers = FirstN(all, ToolArgs.limit.n)
  /\ (IsToolCall("search_papers") /\ Arg(ToolArgs, "query").kind = "string"
      /\ searchPapers(preStore, Arg(ToolArgs, "query").v).kind = "value") =>
       LET all == searchPapers(preStore, Arg(ToolArgs, "query").v).value
       IN  /\ LimitOmitted => ToolText.value.results = FirstN(all, 10)
           /\ LimitPositive =>
                ToolText.value.results = FirstN(all, ToolArgs.limit.n)
  /\ (IsToolCall("get_papers_by_date")
      /\ getPapersForDate(preStore,
           TemplateString(Arg(ToolArgs, "date"))).kind = "value") =>
       LET all == getPapersForDate(preStore,
                    TemplateString(Arg(ToolArgs, "date"))).value.papers
       IN  /\ LimitOmitted => ToolText.value.papers = all
           /\ LimitPositive =>
                ToolText.value.papers = FirstN(all, ToolArgs.limit.n)

C17_Witness ==
  /\ IsToolCall("get_latest_papers")
  /\ LimitOmitted
  /\ getLatestPapers(preStore).kind = "value"
  /\ Len(getLatestPapers(preStore).value.papers) = 11
  /\ Len(ToolText.value.papers) = 10

C17_WitnessSearch ==
  /\ IsToolCall("search_papers")
  /\ LimitOmitted
  /\ Arg(ToolArgs, "query") = JSString(<<"n">>)
  /\ searchPapers(preStore, <<"n">>).kind = "value"
  /\ Len(searchPapers(preStore, <<"n">>).value) > 10
  /\ Len(ToolText.value.results) = 10

C17_WitnessByDate ==
  /\ IsToolCall("get_papers_by_date")
  /\ LimitOmitted
  /\ Arg(ToolArgs, "date") = JSString(D0)
  /\ getPapersForDate(preStore, D0).kind = "value"
  /\ Len(ToolText.value.papers) = 11

C17_WitnessPositive ==
  /\ IsToolCall("get_papers_by_date")
  /\ LimitPositive
  /\ Arg(ToolArgs, "date") = JSString(D0)
  /\ getPapersForDate(preStore, D0).kind = "value"
  /\ Len(ToolText.value.papers) = 1

\* the store holds a document for the date that is not JSON
Malformed(st, date) ==
  /\ existsSync(st, date \o JSON_EXT)
  /\ ~readFileSync(st, date \o JSON_EXT).json

\* positions of the listed dates whose document is malformed
MalformedListed(st) ==
  LET dates == getAllDates(st).value
  IN  {i \in 1..Len(dates) : Malformed(st, dates[i])}

ParseError == [kind |-> "throw", error |-> "SyntaxError"]

\* C18: getForDate of a date whose stored document is malformed fails with
\* the parse error and never returns null; getLatest fails the same way when
\* the document it reads is malformed, and getAll, getById and search when any
\* listed document is, whatever the other documents hold
C18_MalformedPropagates ==
  /\ (last.op = "getPapersForDate" /\ Malformed(preStore, last.arg)) =>
       last.result = ParseError /\ last.result # Null
  /\ (last.op = "getLatestPapers" /\ 1 \in MalformedListed(preStore)) =>
       last.result = ParseError
  /\ (last.op \in {"getAllPapers", "getPaperById", "searchPapers"}
      /\ MalformedListed(preStore) # {}) =>
       last.result = ParseError

C18_Witness ==
  /\ last.op = "getPapersForDate"
  /\ Malformed(preStore, last.arg)
  /\ last.result.kind = "throw"

C18_WitnessLatest ==
  /\ last.op = "getLatestPapers"
  /\ 1 \in MalformedListed(preStore)
  /\ last.result.kind = "throw"

\* a well-formed batch holding the paper precedes the malformed one
C18_WitnessNoPartial ==
  /\ last.op = "getPaperById"
  /\ last.arg = P1.id
  /\ MalformedListed(preStore) # {}
  /\ 1 \notin MalformedListed(preStore)
  /\ getPapersForDate(preStore, getAllDates(preStore).value[1]).kind = "value"
  /\ \E i \in 1..Len(getPapersForDate(preStore,
                       getAllDates(preStore).value[1]).value.papers) :
       getPapersForDate(preStore,
         getAllDates(preStore).value[1]).value.papers[i].id = P1.id
  /\ last.result.kind = "throw"

\* the error raised inside the named tool, if any
ToolFailure ==
  CASE IsToolCall("get_latest_papers") -> getLatestPapers(preStore)
    [] IsToolCall("get_papers_by_date") ->
         getPapersForDate(preStore, TemplateString(Arg(ToolArgs, "date")))
    [] IsToolCall("get_paper_by_id") -> getAllPapers(preStore)
    [] IsToolCall("search_papers") ->
         IF getAllPapers(preStore).kind = "throw" THEN getAllPapers(preStore)
         ELSE IF Arg(ToolArgs, "query").kind # "string"
         THEN [kind |-> "throw", error |-> "TypeError"]
         ELSE Null
    [] IsToolCall("list_dates") -> getAllDates(preStore)
    [] OTHER -> Null

\* C19: an exception raised while a named tool executes is answered as HTTP
\* 200 with isError true and the stringified error in the text; a request
\* with a non-empty name is never answered 500
C19_ToolFailureCaught ==
  (last.op = "POST /api/mcp" /\ last.arg.valid
   /\ "name" \in DOMAIN last.arg.fields /\ last.arg.fields.name # "") =>
    /\ last.result.status # 500
    /\ ToolFailure.kind = "throw" =>
         /\ last.result.status = 200
         /\ DOMAIN last.result.body = {"content", "isError"}
         /\ last.result.body.isError
         /\ Len(last.result.body.content) = 1
         /\ ToolText = Template("Error executing tool",
                                <<last.arg.fields.name, ToolFailure.error>>)

C19_Witness ==
  /\ IsToolCall("get_latest_papers")
  /\ ToolFailure = ParseError
  /\ last.result.status = 200
  /\ last.result.body.isError

C19_WitnessMissingArgument ==
  /\ IsToolCall("search_papers")
  /\ "query" \notin DOMAIN ToolArgs
  /\ ToolFailure.kind = "throw"
  /\ ToolFailure.error = "TypeError"
  /\ last.result.status = 200
  /\ last.result.body.isError

\* the Repository call made by the REST handler that served the request
RestRepositoryCall ==
  CASE last.op = "GET /api/papers/[id]" -> getPaperById(preStore, last.arg)
    [] last.op = "GET /api/papers" /\ truthy(last.arg.q) ->
         searchPapers(preStore, last.arg.q.v)
    [] last.op = "GET /api/papers" /\ ~truthy(last.arg.q)
         /\ truthy(last.arg.date) -> getPapersForDate(preStore, last.arg.date.v)
    [] last.op = "GET /api/papers" /\ ~truthy(last.arg.q)
         /\ ~truthy(last.arg.date) -> getLatestPapers(preStore)
    [] OTHER -> Null

\* C20: an error raised by the Repository while GET /papers (search, date or
\* default branch) or GET /papers/:id is served is answered 500 with
\* {error: "Internal server error"}, never 200 or 404
C20_RepositoryErrorIs500 ==
  (last.op \in {"GET /api/papers", "GET /api/papers/[id]"}
   /\ RestRepositoryCall.kind = "throw") =>
    /\ last.result.status = 500
    /\ last.result.body = [error |-> "Internal server error"]

C20_Witness ==
  /\ last.op = "GET /api/papers"
  /\ truthy(last.arg.q)
  /\ RestRepositoryCall.kind = "throw"
  /\ last.result.status = 500

C20_WitnessDate ==
  /\ last.op = "GET /api/papers"
  /\ ~truthy(last.arg.q)
  /\ truthy(last.arg.date)
  /\ RestRepositoryCall.kind = "throw"
  /\ last.result.status = 500

C20_WitnessDefault ==
  /\ last.op = "GET /api/papers"
  /\ ~truthy(last.arg.q)
  /\ ~truthy(last.arg.date)
  /\ RestRepositoryCall.kind = "throw"
  /\ last.result.status = 500

C20_WitnessId ==
  /\ last.op = "GET /api/papers/[id]"
  /\ RestRepositoryCall.kind = "throw"
  /\ last.result.status = 500

\* the answer of the default branch of the dispatcher
IsUnknownToolResult(result) ==
  /\ IsErrorResult(result)
  /\ result.content[1].text[1] = "Unknown tool: "

\* C21: the catalog of GET /mcp is exactly the five tool names; a POST /mcp
\* naming a catalog entry is never answered "Unknown tool", and one naming
\* anything else always is
C21_CatalogInSync ==
  /\ (last.op = "GET /api/mcp") =>
       /\ last.result.status = 200
       /\ Len(last.result.body.tools) = 5
       /\ {last.result.body.tools[i] : i \in 1..5} =
            {"get_latest_papers", "get_papers_by_date", "get_paper_by_id",
             "search_papers", "list_dates"}
  /\ (last.op = "POST /api/mcp" /\ last.arg.valid
      /\ "name" \in DOMAIN last.arg.fields /\ last.arg.fields.name # "") =>
       (IsUnknownToolResult(last.result.body)
          <=> last.arg.fields.name \notin {TOOLS[i] : i \in 1..Len(TOOLS)})

C21_Witness ==
  /\ IsToolCall("list_dates")
  /\ last.result.status = 200
  /\ "isError" \notin DOMAIN last.result.body

C21_WitnessCatalog ==
  /\ last.op = "GET /api/mcp"
  /\ Len(last.result.body.tools) = 5

C21_WitnessOutside ==
  /\ IsToolCall("no_such_tool")
  /\ IsUnknownToolResult(last.result.body)

\* the set of dates listDates() answers on a store
ListedDates(st) ==
  LET dates == getAllDates(st).value
  IN  {dates[i] : i \in 1..Len(dates)}

\* C22: no step of any Repository operation (reads and save) removes a date
\* from the answer of listDates()
C22_NoDateLost ==
  [][ListedDates(store) \subseteq
       ListedDates([dir |-> dirExists', files |-> files'])]_vars

\* a save replaced a stored document and the listing kept every date
C22_Witness ==
  /\ last.op = "saveDailyPapers"
  /\ existsSync(preStore, last.arg.date \o JSON_EXT)
  /\ Cardinality(ListedDates(preStore)) >= 2
  /\ ListedDates(preStore) = ListedDates(store)

C22_WitnessGrows ==
  /\ last.op = "saveDailyPapers"
  /\ ListedDates(preStore) # {}
  /\ ListedDates(preStore) # ListedDates(store)
  /\ ListedDates(preStore) \subseteq ListedDates(store)

ReadOps ==
  {"getAllDates", "getPapersForDate", "getLatestPapers", "getAllPapers",
   "getPaperById", "searchPapers"}

RequestOps ==
  {"GET /api/papers", "GET /api/papers/[id]", "GET /api/mcp", "POST /api/mcp"}

\* C23: every read operation and every REST or tool-call request leaves the
\* set of stored files and their contents as they were before the call; only
\* saveDailyPapers changes them
C23_OnlySaveMutates ==
  /\ (last.op \in ReadOps \cup RequestOps) => files = last.preFiles
  /\ (files # last.preFiles) => last.op = "saveDailyPapers"

C23_Witness ==
  /\ last.op \in ReadOps
  /\ Cardinality(DOMAIN last.preFiles) >= 2
  /\ files = last.preFiles

C23_WitnessRequest ==
  /\ IsToolCall("search_papers")
  /\ Cardinality(DOMAIN last.preFiles) >= 2
  /\ files = last.preFiles

C23_WitnessSave ==
  /\ last.op = "saveDailyPapers"
  /\ files # last.preFiles

\* the store without one file
RemoveFile(st, filePath) ==
  [st EXCEPT !.files = [f \in DOMAIN st.files \ {filePath} |-> st.files[f]]]

\* the number of positions of a sequence holding a value
Count(arr, v) == Cardinality({i \in 1..Len(arr) : arr[i] = v})

\* the document as it reads back from its file
Stored(daily) == JSONparse(JSONstringify(daily)).value

\* the read operation of a call, run on a store
ReadAgain(st, op, arg) ==
  CASE op = "getAllDates" -> getAllDates(st)
    [] op = "getPapersForDate" -> getPapersForDate(st, arg)
    [] op = "getLatestPapers" -> getLatestPapers(st)
    [] op = "getAllPapers" -> getAllPapers(st)
    [] op = "getPaperById" -> getPaperById(st, arg)
    [] op = "searchPapers" -> searchPapers(st, arg)

\* C24: right after save(d) listDates() on the store holds d.date and
\* getAll(), where it reads, holds the papers of d next to those of the
\* other dates and nothing of the document d replaced; a read repeated on
\* the store it left behind answers the same
C24_NoCrossCallState ==
  /\ (last.op = "saveDailyPapers" /\ last.result = Null) =>
       /\ last.arg.date \in ListedDates(store)
       /\ getAllPapers(store).kind = "value" =>
            LET all == getAllPapers(store).value
                others == getAllPapers(
                            RemoveFile(store, last.arg.date \o JSON_EXT)).value
                mine == Stored(last.arg).papers
            IN  /\ Len(all) = Len(others) + Len(mine)
                /\ \A i \in 1..Len(all) :
                     Count(all, all[i]) =
                       Count(others, all[i]) + Count(mine, all[i])
  /\ (last.op \in ReadOps) => last.result = ReadAgain(store, last.op, last.arg)

\* a save replaced a document holding other papers, and getAll reads
C24_Witness ==
  /\ last.op = "saveDailyPapers"
  /\ existsSync(preStore, last.arg.date \o JSON_EXT)
  /\ getPapersForDate(preStore, last.arg.date).kind = "value"
  /\ Len(getPapersForDate(preStore, last.arg.date).value.papers) > 0
  /\ getPapersForDate(preStore, last.arg.date).value.papers
       # Stored(last.arg).papers
  /\ getAllPapers(store).kind = "value"
  /\ Len(getAllPapers(store).value) > Len(last.arg.papers)

\* a read that created the content directory is repeated
C24_WitnessRepeat ==
  /\ last.op = "getAllDates"
  /\ ~last.preDir
  /\ dirExists
  /\ last.result = getAllDates(store)

(***************************************************************************)
(* Two saveDailyPapers calls running in two processes (lib/papers.ts 7-11, *)
(* 65-69).  Each call is the sequence of its file-system calls:            *)
(* existsSync, mkdirSync({recursive: true}), and writeFileSync, which      *)
(* opens the file with flag "w" (created or truncated) and then writes the *)
(* text at offset 0.  The variable last holds the two calls in flight.     *)
(***************************************************************************)
Procs == {1, 2}

\* a file that was opened with flag "w" and not yet written
EmptyFile == [json |-> FALSE, empty |-> TRUE]

\* what the file holds after text is written at offset 0 over old: the text
\* alone when old is not longer, else the text followed by the rest of old,
\* which is not JSON.  A batch of more papers is the longer text; of two
\* different batches of as many papers either may be
Overlay(old, text) ==
  IF old = EmptyFile \/ old = text THEN {text}
  ELSE IF ~old.json THEN {Garbage}
  ELSE IF Len(old.value.papers) > Len(text.value.papers) THEN {Garbage}
  ELSE IF Len(old.value.papers) < Len(text.value.papers) THEN {text}
  ELSE {text, Garbage}

ConcurrentDocs == {d \in Docs : Len(d.papers) >= 1}

InitConcurrent ==
  /\ \/ /\ dirExists = FALSE
        /\ files = NoFiles
     \/ /\ dirExists = TRUE
        /\ \E S \in InitialListings :
             files = [f \in S |-> ExternalFiles[f]]
  /\ \E d1 \in ConcurrentDocs, d2 \in ConcurrentDocs :
       last = [op |-> "saveDailyPapers || saveDailyPapers",
               arg |-> <<d1, d2>>, result |-> Null,
               pc |-> [p \in Procs |-> "existsSync"],
               preDir |-> dirExists, preFiles |-> files]

\* ensureContentDir: if (!fs.existsSync(CONTENT_DIR))
CheckDir(p) ==
  /\ last.pc[p] = "existsSync"
  /\ last' = [last EXCEPT !.pc[p] = IF existsSyncDir(store) THEN "open"
                                                            ELSE "mkdirSync"]
  /\ UNCHANGED <<dirExists, files>>

\* ensureContentDir: fs.mkdirSync(CONTENT_DIR, {recursive: true})
MakeDir(p) ==
  /\ last.pc[p] = "mkdirSync"
  /\ dirExists' = mkdirSync(store).dir
  /\ last' = [last EXCEPT !.pc[p] = "open"]
  /\ UNCHANGED files

\* writeFileSync: the file is created or truncated
OpenFile(p) ==
  /\ last.pc[p] = "open"
  /\ files' = writeFileSync(store, last.arg[p].date \o JSON_EXT,
                            EmptyFile).value.files
  /\ last' = [last EXCEPT !.pc[p] = "write"]
  /\ UNCHANGED dirExists

\* writeFileSync: the text is written at offset 0 and the file closed
WriteFile(p) ==
  /\ last.pc[p] = "write"
  /\ \E content \in Overlay(files[last.arg[p].date \o JSON_EXT],
                            JSONstringify(last.arg[p])) :
       files' = writeFileSync(store, last.arg[p].date \o JSON_EXT,
                              content).value.files
  /\ last' = [last EXCEPT !.pc[p] = "done"]
  /\ UNCHANGED dirExists

NextConcurrent ==
  \/ \E p \in Procs : CheckDir(p)
  \/ \E p \in Procs : MakeDir(p)
  \/ \E p \in Procs : OpenFile(p)
  \/ \E p \in Procs : WriteFile(p)

SpecConcurrent == InitConcurrent /\ [][NextConcurrent]_vars

BothDone ==
  /\ "pc" \in DOMAIN last
  /\ \A p \in Procs : last.pc[p] = "done"

\* the store after the two saves run one after the other
SavedInOrder(first, second) ==
  saveDailyPapers(saveDailyPapers(preStore, first).value, second).value

\* C25: when the two concurrent saves have returned, the store is the one
\* that running them in one of the two sequential orders produces
C25_SavesSerializable ==
  BothDone =>
    store \in {SavedInOrder(last.arg[1], last.arg[2]),
               SavedInOrder(last.arg[2], last.arg[1])}

\* the part of C25 about different dates: both documents are stored as given
C25_DifferentDatesIndependent ==
  (BothDone /\ last.arg[1].date # last.arg[2].date) =>
    /\ store = SavedInOrder(last.arg[1], last.arg[2])
    /\ store = SavedInOrder(last.arg[2], last.arg[1])

\* the directory was found missing by both calls, and both stored their date
C25_WitnessDifferentDates ==
  /\ BothDone
  /\ ~last.preDir
  /\ last.arg[1].date # last.arg[2].date
  /\ files[last.arg[1].date \o JSON_EXT] = JSONstringify(last.arg[1])
  /\ files[last.arg[2].date \o JSON_EXT] = JSONstringify(last.arg[2])

\* two saves of one date left a file that is neither document
C25_WitnessTorn ==
  /\ BothDone
  /\ last.arg[1].date = last.arg[2].date
  /\ files[last.arg[1].date \o JSON_EXT] = Garbage

\* C26: on the store listDates() has just read, getForDate(d) is not absent
\* for any date d of its answer, so getAll() skips no listed date
C26_ListedDatesRetrievable ==
  (last.op = "getAllDates" /\ last.result.kind = "value") =>
    \A i \in 1..Len(last.result.value) :
      getPapersForDate(store, last.result.value[i]) # Null

\* a listed date that getAll() skips
C26_WitnessSkipped ==
  /\ last.op = "getAllDates"
  /\ \E i \in 1..Len(last.result.value) :
       /\ last.result.value[i] = D2l \o JSON_EXT
       /\ getPapersForDate(store, last.result.value[i]) = Null
  /\ getAllPapers(store).kind = "value"
  /\ \A i \in 1..Len(getAllPapers(store).value) :
       getAllPapers(store).value[i] # Stored([date |-> DJsonl,
         papers |-> <<P2>>, generatedAt |-> GenAt]).papers[1]

(***************************************************************************)
(* The stores built from the empty store by saveDailyPapers alone: the     *)
(* module of lib/papers.ts with no file of another producer.               *)
(***************************************************************************)
InitEmpty ==
  /\ dirExists \in BOOLEAN
  /\ files = NoFiles
  /\ last = [op |-> "none", arg |-> <<>>, result |-> Null,
             preDir |-> dirExists, preFiles |-> files]

NextSaves ==
  \/ SaveDailyPapers
  \/ GetAllDates
  \/ GetPapersForDate
  \/ GetLatestPapers
  \/ Return

SpecSaves == InitEmpty /\ [][NextSaves]_vars

\* C27: in a store built by saves alone every file holds a document whose
\* date is the file name without its suffix; so getLatest().date is the
\* first listed date and getForDate(x).date is x whenever a document is
\* returned
C27_DateIsKey ==
  /\ \A f \in DOMAIN files :
       /\ endsWith(f, JSON_EXT)
       /\ JSONparse(readFileSync(store, f)).kind = "value"
       /\ JSONparse(readFileSync(store, f)).value.date = StripSuffix(f)
  /\ (last.op = "getLatestPapers" /\ getAllDates(preStore).value # <<>>) =>
       /\ last.result.kind = "value"
       /\ last.result.value.date = getAllDates(preStore).value[1]
  /\ (last.op = "getPapersForDate" /\ last.result.kind = "value") =>
       last.result.value.date = last.arg

C27_Witness ==
  /\ last.op = "getLatestPapers"
  /\ Cardinality(DOMAIN last.preFiles) = 2
  /\ last.result.kind = "value"
  /\ last.result.value.date = D3

C27_WitnessForDate ==
  /\ last.op = "getPapersForDate"
  /\ last.result.kind = "value"
  /\ last.result.value.date = D2

\* a query parameter that is present and not the empty string
NonEmptyParam(p) == p # ParamAbsent /\ p.v # <<>>

\* C28: GET /papers answers by a fixed priority: a non-empty q gives the
\* search response whatever date is; otherwise a non-empty date gives the
\* date lookup (the document or 404); otherwise, q and date absent or
\* empty, the default response.  The three shapes exclude each other
C28_BranchPriority ==
  (last.op = "GET /api/papers" /\ last.result.status # 500) =>
    LET r == last.result
    IN  IF NonEmptyParam(last.arg.q)
        THEN r.status = 200 /\ DOMAIN r.body = {"papers", "total"}
        ELSE IF NonEmptyParam(last.arg.date)
        THEN \/ /\ r.status = 200
                /\ Value(r.body) = getPapersForDate(preStore, last.arg.date.v)
                /\ DOMAIN r.body = {"date", "papers", "generatedAt"}
             \/ /\ r.status = 404
                /\ DOMAIN r.body = {"error"}
                /\ getPapersForDate(preStore, last.arg.date.v) = Null
        ELSE r.status = 200 /\ DOMAIN r.body = {"latest", "availableDates"}

\* q and date are both given and the search answers
C28_Witness ==
  /\ last.op = "GET /api/papers"
  /\ last.arg.q = JSString(<<"n">>)
  /\ last.arg.date = JSString(D1)
  /\ getPapersForDate(preStore, D1).kind = "value"
  /\ last.result.status = 200
  /\ DOMAIN last.result.body = {"papers", "total"}

\* q is given empty and the date lookup answers
C28_WitnessEmptyQuery ==
  /\ last.op = "GET /api/papers"
  /\ last.arg.q = JSString(<<>>)
  /\ last.arg.date = JSString(D1)
  /\ last.result.status = 200
  /\ DOMAIN last.result.body = {"date", "papers", "generatedAt"}

\* q and date are given empty and the default answers
C28_WitnessBothEmpty ==
  /\ last.op = "GET /api/papers"
  /\ last.arg.q = JSString(<<>>)
  /\ last.arg.date = JSString(<<>>)
  /\ last.result.status = 200
  /\ DOMAIN last.result.body = {"latest", "availableDates"}

\* a call with an explicit limit of 0 that was answered with items
IsZeroLimitCall ==
  \/ /\ last.op = "GET /api/papers"
     /\ NonEmptyParam(last.arg.q)
     /\ last.arg.limit = JSString(<<"0">>)
     /\ last.result.status = 200
  \/ /\ \/ IsToolCall("get_latest_papers")
        \/ IsToolCall("get_papers_by_date")
        \/ IsToolCall("search_papers")
     /\ Arg(ToolArgs, "limit") = JSNumber(0)
     /\ ToolSucceeds

\* the items the call returned
ReturnedItems ==
  CASE last.op = "GET /api/papers" -> last.result.body.papers
    [] IsToolCall("search_papers") -> ToolText.value.results
    [] OTHER -> ToolText.value.papers

\* the items the call returns when nothing limits it
UnlimitedItems ==
  CASE last.op = "GET /api/papers" ->
         searchPapers(preStore, last.arg.q.v).value
    [] IsToolCall("search_papers") ->
         searchPapers(preStore, Arg(ToolArgs, "query").v).value
    [] IsToolCall("get_latest_papers") ->
         getLatestPapers(preStore).value.papers
    [] OTHER ->
         getPapersForDate(preStore,
           TemplateString(Arg(ToolArgs, "date"))).value.papers

\* the answers of the four endpoints to limit 0 on a store, each as the
\* pair of the number of items returned and the number without limit
ZeroLimitCounts(st, query, date) ==
  LET zero == [limit |-> JSNumber(0)]
      rest == RestGetPapers(st, ParamAbsent, JSString(query),
                            JSString(<<"0">>))
      latest == executeTool(st, "get_latest_papers", zero)
      byDate == executeTool(st, "get_papers_by_date",
                            WithLimit([date |-> JSString(date)], JSNumber(0)))
      search == executeTool(st, "search_papers",
                            WithLimit([query |-> JSString(query)], JSNumber(0)))
  IN  {<<Len(rest.body.papers), Len(searchPapers(st, query).value)>>,
       <<Len(latest.content[1].text.value.papers),
         Len(getLatestPapers(st).value.papers)>>,
       <<Len(byDate.content[1].text.value.papers),
         Len(getPapersForDate(st, date).value.papers)>>,
       <<Len(search.content[1].text.value.results),
         Len(searchPapers(st, query).value)>>}

\* C29: the answer to a call with an explicit limit of 0 and the answers
\* the REST search route and the three tools with a limit give to limit 0
\* on the same store treat the limit alike: either every one of them
\* ignores it or every one of them returns nothing
C29_ZeroLimitUniform ==
  \A query \in {<<"n">>}, date \in {D0, D1, D2, D3} :
    (/\ IsZeroLimitCall
     /\ searchPapers(preStore, query).kind = "value"
     /\ getLatestPapers(preStore).kind = "value"
     /\ getPapersForDate(preStore, date).kind = "value") =>
      LET counts == ZeroLimitCounts(preStore, query, date)
                      \cup {<<Len(ReturnedItems), Len(UnlimitedItems)>>}
      IN  \/ \A c \in counts : c[1] = c[2]
          \/ \A c \in counts : c[1] = 0

\* get_latest_papers with limit 0 returns nothing of a non-empty batch
C29_WitnessNothing ==
  /\ IsToolCall("get_latest_papers")
  /\ IsZeroLimitCall
  /\ UnlimitedItems # <<>>
  /\ ReturnedItems = <<>>

\* get_papers_by_date with limit 0 returns the whole non-empty batch
C29_WitnessIgnored ==
  /\ IsToolCall("get_papers_by_date")
  /\ IsZeroLimitCall
  /\ UnlimitedItems # <<>>
  /\ ReturnedItems = UnlimitedItems

\* C30: a tool result with a total field counts the items it returns:
\* total is the length of papers for get_latest_papers and the length of
\* results for search_papers, whatever the limit
C30_TotalCountsReturned ==
  /\ (IsToolCall("get_latest_papers") /\ ToolSucceeds) =>
       ToolText.value.total = Len(ToolText.value.papers)
  /\ (IsToolCall("search_papers") /\ ToolSucceeds) =>
       ToolText.value.total = Len(ToolText.value.results)

\* get_latest_papers cut the batch and reports the length of the whole
C30_WitnessLatest ==
  /\ IsToolCall("get_latest_papers")
  /\ ToolSucceeds
  /\ Arg(ToolArgs, "limit") = JSNumber(1)
  /\ Len(ToolText.value.papers) = 1
  /\ ToolText.value.total > 1

\* search_papers cut the matches and reports the length of the cut
C30_WitnessSearch ==
  /\ IsToolCall("search_papers")
  /\ ToolSucceeds
  /\ Arg(ToolArgs, "limit") = JSNumber(1)
  /\ Len(searchPapers(preStore, Arg(ToolArgs, "query").v).value) > 1
  /\ ToolText.value.total = 1

====
